---- MODULE Spec2Model ----
(***************************************************************************)
(* A model of static/js/script.js of banking_project: the export queue of  *)
(* ReportSystem (handleExport, addToExportQueue, renderExportQueue,        *)
(* processExportQueue, processExportJob), the fetch-and-render operations  *)
(* (loadReportParameters, previewReport, loadDashboardData), validateForm  *)
(* and the table helpers sortTable and filterTable.                        *)
(*                                                                         *)
(* JavaScript runs one task at a time.  A handler or timer callback (a     *)
(* task) starts only when no async function is in the middle of its        *)
(* synchronous run (AtEventLoop); the pieces of an async function between  *)
(* two awaits are separate steps that run before the next task.            *)
(***************************************************************************)
EXTENDS Integers, Sequences, FiniteSets, TLC

\* ------------------------------------------------------------------------
\* Bounds of the model and constants of the program

\* how many export-form submits a behaviour holds (one handleExport each)
MaxSubmits == 3

\* how many calls of the fetch-and-render operations a behaviour holds
MaxCalls == 3

\* how many body rows a table holds at most
MaxRows == 3

\* how many .invalid-feedback messages a field's parent may hold before the
\* model stops submitting the form
MaxFeedback == 2

\* field.value.length < 6
MinPasswordLength == 6

\* for (let progress = 0; progress <= 100; progress += 10)
ProgressStart == 0
ProgressMax == 100
ProgressStep == 10

VARIABLES
    \* ---- ReportSystem export queue
    exportQueue,      \* this.exportQueue: the job objects, by identity
    jobs,             \* the job objects: status, progress, format
    isProcessing,     \* this.isProcessing
    pc,               \* where each handleExport invocation stands
    job,              \* processExportQueue's local `job` of each invocation
    progress,         \* processExportJob's loop variable of each invocation
    containerPresent, \* whether the page holds #export-queue
    rendered,         \* what #export-queue.innerHTML shows
    downloads,        \* calls of downloadExportResult, per job
    delays,           \* calls of delay(500), per job
    events,           \* what happened to the jobs, in order: <<what, job>>
    \* ---- ReportSystem fetch-and-render operations
    calls,            \* the calls of the three async operations
    overlays,         \* the .loading-overlay elements of body, in order
    dashLoading,      \* #analytics-dashboard carries the class 'loading'
    alerts,           \* the error alerts showError has put into <main>
    currentReportType, \* this.currentReportType
    paramsShown,      \* what #dynamic-parameters holds
    previewShown,     \* what #preview-content holds
    dashShown,        \* the call whose data the dashboard shows
    page,             \* which elements the page holds
    \* ---- a form[novalidate]
    fields,           \* its fields: type, required, value, error markers
    lastSubmit,       \* the submit event of the last submit since an edit
    \* ---- a sortable table inside a .table-container with a search input
    rows,             \* the tr elements of tbody, in document order
    cells,            \* the text of each row's cell, per column
    hidden,           \* the rows with style.display 'none'
    sortClass,        \* the sort classes of each th
    lastClick,        \* the header of the last click and its isAsc
    lastTerm          \* the search input's value at the last filterTable

queueVars == <<exportQueue, jobs, isProcessing, pc, job, progress,
               containerPresent, rendered, downloads, delays, events>>

fetchVars == <<calls, overlays, dashLoading, alerts, currentReportType,
               paramsShown, previewShown, dashShown, page>>

formVars == <<fields, lastSubmit>>

tableVars == <<rows, cells, hidden, sortClass, lastClick, lastTerm>>

vars == <<queueVars, fetchVars, formVars, tableVars>>

notQueue == <<fetchVars, formVars, tableVars>>
notFetch == <<queueVars, formVars, tableVars>>
notForm == <<queueVars, fetchVars, tableVars>>
notTable == <<queueVars, fetchVars, formVars>>

\* ------------------------------------------------------------------------
\* The export queue

Invocations == 1..MaxSubmits

\* a job object exists once handleExport has built it; job h is the one the
\* h-th submit builds
NoJob == [status |-> "none", progress |-> 0, format |-> "none"]

\* formData.format: the value of the form's `format` control, or undefined
\* when the form submits no such control
Formats == {"csv", "undefined"}

NewJob(fmt) == [status |-> "queued", progress |-> 0, format |-> fmt]

\* job.format.toUpperCase() throws a TypeError when format is undefined;
\* nothing is reached when the page has no #export-queue
RenderThrows(q, js) ==
    /\ containerPresent
    /\ \E i \in 1..Len(q) : js[q[i]].format = "undefined"

\* one .export-item per job: its status label, and the progress bar only
\* while the job is 'processing'
ExportItem(id, j) ==
    [id |-> id, status |-> j.status,
     bar |-> IF j.status = "processing" THEN {j.progress} ELSE {}]

\* renderExportQueue: innerHTML is assigned only when the map has finished
renderExportQueue(q, js) ==
    IF containerPresent /\ ~RenderThrows(q, js)
    THEN [i \in 1..Len(q) |-> ExportItem(q[i], js[q[i]])]
    ELSE rendered

\* positions at which an invocation is not running: not started, waiting
\* for a timer, or finished (normally, or with its promise rejected)
Parked == {"idle", "delay", "done", "rejected"}

AtEventLoop == \A h \in Invocations : pc[h] \in Parked

\* the invocations inside processExportQueue's while loop
InLoop == {h \in Invocations : pc[h] \notin {"idle", "done", "rejected"}}

\* (mutant) the guard without the isProcessing test
ReturnsAtOnceNoFlag(flag, q) == Len(q) = 0

\* processExportQueue's first line: if (isProcessing || length === 0) return
ReturnsAtOnce(flag, q) == flag \/ Len(q) = 0

\* (mutant) the loop takes the newest job instead of the oldest
LastJob(q) == q[Len(q)]

\* const job = this.exportQueue[0]
HeadJob(q) == q[1]

\* (mutant) the loop stops one step early: progress < 100
LoopContinuesStrict(p) == p < ProgressMax

\* the for loop's condition: progress <= 100
LoopContinues(p) == p <= ProgressMax

QuietQueue ==
    /\ exportQueue = <<>>
    /\ jobs = [h \in Invocations |-> NoJob]
    /\ isProcessing = FALSE
    /\ pc = [h \in Invocations |-> "idle"]
    /\ job = [h \in Invocations |-> 0]
    /\ progress = [h \in Invocations |-> 0]
    /\ containerPresent = TRUE
    /\ rendered = <<>>
    /\ downloads = [h \in Invocations |-> 0]
    /\ delays = [h \in Invocations |-> 0]
    /\ events = <<>>

InitQueue ==
    /\ exportQueue = <<>>
    /\ jobs = [h \in Invocations |-> NoJob]
    /\ isProcessing = FALSE
    /\ pc = [h \in Invocations |-> "idle"]
    /\ job = [h \in Invocations |-> 0]
    /\ progress = [h \in Invocations |-> 0]
    /\ containerPresent \in BOOLEAN
    /\ rendered = <<>>
    /\ downloads = [h \in Invocations |-> 0]
    /\ delays = [h \in Invocations |-> 0]
    /\ events = <<>>

\* handleExport up to the call of processExportQueue and that call's first
\* lines.  A throw of addToExportQueue's render rejects handleExport before
\* processExportQueue is called.
HandleExport(h, fmt) ==
    /\ AtEventLoop
    /\ pc[h] = "idle"
    /\ \A g \in Invocations : g < h => pc[g] # "idle"
    /\ LET js == [jobs EXCEPT ![h] = NewJob(fmt)]
           q  == Append(exportQueue, h)
       IN  /\ jobs' = js
           /\ exportQueue' = q
           /\ rendered' = renderExportQueue(q, js)
           /\ IF RenderThrows(q, js)
              THEN /\ pc' = [pc EXCEPT ![h] = "rejected"]
                   /\ UNCHANGED isProcessing
              ELSE IF ReturnsAtOnce(isProcessing, q)
              THEN /\ pc' = [pc EXCEPT ![h] = "done"]
                   /\ UNCHANGED isProcessing
              ELSE /\ pc' = [pc EXCEPT ![h] = "loop"]
                   /\ isProcessing' = TRUE
    /\ events' = Append(events, <<"enqueue", h>>)
    /\ UNCHANGED <<job, progress, containerPresent, downloads, delays>>
    /\ UNCHANGED notQueue

\* while (this.exportQueue.length > 0) { const job = this.exportQueue[0];
\* and, after the loop, this.isProcessing = false
LoopCheck(h) ==
    /\ pc[h] = "loop"
    /\ IF Len(exportQueue) > 0
       THEN /\ job' = [job EXCEPT ![h] = HeadJob(exportQueue)]
            /\ pc' = [pc EXCEPT ![h] = "job"]
            /\ UNCHANGED isProcessing
       ELSE /\ isProcessing' = FALSE
            /\ pc' = [pc EXCEPT ![h] = "done"]
            /\ UNCHANGED job
    /\ UNCHANGED <<exportQueue, jobs, progress, containerPresent, rendered,
                   downloads, delays, events>>
    /\ UNCHANGED notQueue

\* processExportJob: job.status = 'processing'; this.renderExportQueue();
JobStart(h) ==
    /\ pc[h] = "job"
    /\ LET js == [jobs EXCEPT ![job[h]].status = "processing"]
       IN  /\ jobs' = js
           /\ rendered' = renderExportQueue(exportQueue, js)
           /\ IF RenderThrows(exportQueue, js)
              THEN /\ pc' = [pc EXCEPT ![h] = "catch"]
                   /\ UNCHANGED progress
              ELSE /\ pc' = [pc EXCEPT ![h] = "step"]
                   /\ progress' = [progress EXCEPT ![h] = ProgressStart]
    /\ events' = Append(events, <<"start", job[h]>>)
    /\ UNCHANGED <<exportQueue, isProcessing, job, containerPresent,
                   downloads, delays>>
    /\ UNCHANGED notQueue

\* the for loop's body: job.progress = progress; this.renderExportQueue();
\* await this.delay(500)
Step(h) ==
    /\ pc[h] = "step"
    /\ LET js == [jobs EXCEPT ![job[h]].progress = progress[h]]
       IN  /\ jobs' = js
           /\ rendered' = renderExportQueue(exportQueue, js)
           /\ IF RenderThrows(exportQueue, js)
              THEN /\ pc' = [pc EXCEPT ![h] = "catch"]
                   /\ UNCHANGED delays
              ELSE /\ pc' = [pc EXCEPT ![h] = "delay"]
                   /\ delays' = [delays EXCEPT ![job[h]] = @ + 1]
    /\ UNCHANGED <<exportQueue, isProcessing, job, progress,
                   containerPresent, downloads, events>>
    /\ UNCHANGED notQueue

\* the timer of delay(500) fires: progress += 10 and the loop's condition
TimerFire(h) ==
    /\ AtEventLoop
    /\ pc[h] = "delay"
    /\ progress' = [progress EXCEPT ![h] = @ + ProgressStep]
    /\ pc' = [pc EXCEPT ![h] =
                 IF LoopContinues(progress[h] + ProgressStep)
                 THEN "step" ELSE "finish"]
    /\ UNCHANGED <<exportQueue, jobs, isProcessing, job, containerPresent,
                   rendered, downloads, delays, events>>
    /\ UNCHANGED notQueue

\* job.status = 'completed'; this.renderExportQueue();
\* this.downloadExportResult(job)
Finish(h) ==
    /\ pc[h] = "finish"
    /\ LET js == [jobs EXCEPT ![job[h]].status = "completed"]
       IN  /\ jobs' = js
           /\ rendered' = renderExportQueue(exportQueue, js)
           /\ IF RenderThrows(exportQueue, js)
              THEN /\ pc' = [pc EXCEPT ![h] = "catch"]
                   /\ events' = Append(events, <<"complete", job[h]>>)
                   /\ UNCHANGED downloads
              ELSE /\ pc' = [pc EXCEPT ![h] = "resolved"]
                   /\ events' = events \o <<(<<"complete", job[h]>>),
                                             (<<"download", job[h]>>)>>
                   /\ downloads' = [downloads EXCEPT ![job[h]] = @ + 1]
    /\ UNCHANGED <<exportQueue, isProcessing, job, progress,
                   containerPresent, delays>>
    /\ UNCHANGED notQueue

\* after await this.processExportJob(job): this.exportQueue.shift()
Shift(h) ==
    /\ pc[h] = "resolved"
    /\ exportQueue' = Tail(exportQueue)
    /\ pc' = [pc EXCEPT ![h] = "loop"]
    /\ events' = Append(events, <<"remove", exportQueue[1]>>)
    /\ UNCHANGED <<jobs, isProcessing, job, progress, containerPresent,
                   rendered, downloads, delays>>
    /\ UNCHANGED notQueue

\* (mutant) the catch block marks the job and goes on with the loop
CatchContinue(h) ==
    /\ pc[h] = "catch"
    /\ jobs' = [jobs EXCEPT ![job[h]].status = "failed"]
    /\ pc' = [pc EXCEPT ![h] = "loop"]
    /\ events' = Append(events, <<"fail", job[h]>>)
    /\ UNCHANGED <<exportQueue, isProcessing, job, progress, containerPresent,
                   rendered, downloads, delays>>
    /\ UNCHANGED notQueue

\* (mutant) the catch block drops the failed job from the queue
CatchDrop(h) ==
    /\ pc[h] = "catch"
    /\ jobs' = [jobs EXCEPT ![job[h]].status = "failed"]
    /\ exportQueue' = Tail(exportQueue)
    /\ rendered' = renderExportQueue(Tail(exportQueue), jobs')
    /\ IF RenderThrows(Tail(exportQueue), jobs')
       THEN /\ pc' = [pc EXCEPT ![h] = "rejected"]
            /\ UNCHANGED isProcessing
       ELSE /\ pc' = [pc EXCEPT ![h] = "done"]
            /\ isProcessing' = FALSE
    /\ events' = Append(events, <<"fail", job[h]>>)
    /\ UNCHANGED <<job, progress, containerPresent, downloads, delays>>
    /\ UNCHANGED notQueue

\* catch (error) { job.status = 'failed'; this.renderExportQueue(); break; }
\* and then this.isProcessing = false.  A throw of this render leaves
\* processExportQueue before the break and before the flag is reset.
Catch(h) ==
    /\ pc[h] = "catch"
    /\ LET js == [jobs EXCEPT ![job[h]].status = "failed"]
       IN  /\ jobs' = js
           /\ rendered' = renderExportQueue(exportQueue, js)
           /\ IF RenderThrows(exportQueue, js)
              THEN /\ pc' = [pc EXCEPT ![h] = "rejected"]
                   /\ UNCHANGED isProcessing
              ELSE /\ pc' = [pc EXCEPT ![h] = "done"]
                   /\ isProcessing' = FALSE
    /\ events' = Append(events, <<"fail", job[h]>>)
    /\ UNCHANGED <<exportQueue, job, progress, containerPresent, downloads,
                   delays>>
    /\ UNCHANGED notQueue

\* ------------------------------------------------------------------------
\* loadReportParameters, previewReport and loadDashboardData

Calls == 1..MaxCalls

ReportTypes == {"financial", "clients"}

NoCall == [kind |-> "none", pc |-> "idle", arg |-> "none", failed |-> FALSE]

\* the page: <main>, #analytics-dashboard, the csrfmiddlewaretoken input,
\* #report-form and #dynamic-parameters
Pages == [main : BOOLEAN, dashboard : BOOLEAN, csrf : BOOLEAN,
          form : BOOLEAN, params : BOOLEAN]

\* the next call is the first one not made yet
IsNextCall(o) ==
    /\ calls[o].kind = "none"
    /\ \A n \in Calls : n < o => calls[n].kind # "none"

\* showLoading appends a new overlay to body
showLoading(ov, o) == Append(ov, o)

\* hideLoading removes the first .loading-overlay of the document, if any
hideLoading(ov) == IF ov = <<>> THEN ov ELSE Tail(ov)

\* showDashboardLoading / hideDashboardLoading: only with the dashboard
showDashboardLoading(dl) == IF page.dashboard THEN TRUE ELSE dl
hideDashboardLoading(dl) == IF page.dashboard THEN FALSE ELSE dl

\* the indicator an operation of this kind switches off: <<overlays, class>>
IndicatorOff(kind, ov, dl) ==
    IF kind = "dashboard"
    THEN <<ov, hideDashboardLoading(dl)>>
    ELSE <<hideLoading(ov), dl>>

\* showError: document.querySelector('main').prepend(alert) throws a
\* TypeError when the page has no <main>
ShowErrorThrows == ~page.main

\* the catch block of the three operations, entered with the overlays ov and
\* the class dl: console.error; showError; hide the indicator.  When showError
\* throws, the operation's promise rejects and the indicator stays.
CatchBlock(o, cs, ov, dl) ==
    IF ShowErrorThrows
    THEN /\ calls' = [cs EXCEPT ![o].pc = "rejected", ![o].failed = TRUE]
         /\ alerts' = alerts
         /\ overlays' = ov
         /\ dashLoading' = dl
    ELSE /\ calls' = [cs EXCEPT ![o].pc = "done", ![o].failed = TRUE]
         /\ alerts' = alerts + 1
         /\ overlays' = IndicatorOff(cs[o].kind, ov, dl)[1]
         /\ dashLoading' = IndicatorOff(cs[o].kind, ov, dl)[2]

QuietFetch ==
    /\ calls = [o \in Calls |-> NoCall]
    /\ overlays = <<>>
    /\ dashLoading = FALSE
    /\ alerts = 0
    /\ currentReportType = "null"
    /\ paramsShown = "initial"
    /\ previewShown = 0
    /\ dashShown = 0
    /\ page = [main |-> TRUE, dashboard |-> TRUE, csrf |-> TRUE,
               form |-> TRUE, params |-> TRUE]

InitFetch ==
    /\ calls = [o \in Calls |-> NoCall]
    /\ overlays = <<>>
    /\ dashLoading = FALSE
    /\ alerts = 0
    /\ currentReportType = "null"
    /\ paramsShown = "initial"
    /\ previewShown = 0
    /\ dashShown = 0
    /\ page \in Pages

\* handleReportTypeChange(reportType) and loadReportParameters up to its
\* await fetch(...)
HandleReportTypeChange(o, t) ==
    /\ IsNextCall(o)
    /\ currentReportType' = t
    /\ overlays' = showLoading(overlays, o)
    /\ calls' = [calls EXCEPT ![o] =
                    [kind |-> "params", pc |-> "fetch", arg |-> t,
                     failed |-> FALSE]]
    /\ UNCHANGED <<dashLoading, alerts, paramsShown, previewShown, dashShown,
                   page>>
    /\ UNCHANGED notFetch

\* previewReport up to its await fetch(...): getFormData runs before the
\* try block, getCsrfToken inside it
PreviewReport(o) ==
    /\ IsNextCall(o)
    /\ LET cs == [calls EXCEPT ![o] =
                     [kind |-> "preview", pc |-> "fetch", arg |-> "none",
                      failed |-> FALSE]]
       IN  IF ~page.form
           THEN /\ calls' = [cs EXCEPT ![o].pc = "rejected"]
                /\ UNCHANGED <<overlays, dashLoading, alerts>>
           ELSE IF ~page.csrf
           THEN CatchBlock(o, cs, showLoading(overlays, o), dashLoading)
           ELSE /\ calls' = cs
                /\ overlays' = showLoading(overlays, o)
                /\ UNCHANGED <<dashLoading, alerts>>
    /\ UNCHANGED <<currentReportType, paramsShown, previewShown, dashShown,
                   page>>
    /\ UNCHANGED notFetch

\* loadDashboardData(filters) up to its await fetch(...)
LoadDashboardData(o) ==
    /\ IsNextCall(o)
    /\ LET cs == [calls EXCEPT ![o] =
                     [kind |-> "dashboard", pc |-> "fetch", arg |-> "none",
                      failed |-> FALSE]]
       IN  IF ~page.csrf
           THEN CatchBlock(o, cs, overlays, showDashboardLoading(dashLoading))
           ELSE /\ calls' = cs
                /\ dashLoading' = showDashboardLoading(dashLoading)
                /\ UNCHANGED <<overlays, alerts>>
    /\ UNCHANGED <<currentReportType, paramsShown, previewShown, dashShown,
                   page>>
    /\ UNCHANGED notFetch

\* the fetch promise rejects (network error): the catch block runs
FetchRejects(o) ==
    /\ calls[o].pc = "fetch"
    /\ CatchBlock(o, calls, overlays, dashLoading)
    /\ UNCHANGED <<currentReportType, paramsShown, previewShown, dashShown,
                   page>>
    /\ UNCHANGED notFetch

\* the fetch promise resolves: await response.json()
FetchResolves(o) ==
    /\ calls[o].pc = "fetch"
    /\ calls' = [calls EXCEPT ![o].pc = "json"]
    /\ UNCHANGED <<overlays, dashLoading, alerts, currentReportType,
                   paramsShown, previewShown, dashShown, page>>
    /\ UNCHANGED notFetch

\* response.json() rejects: the body is not valid JSON
JsonInvalid(o) ==
    /\ calls[o].pc = "json"
    /\ CatchBlock(o, calls, overlays, dashLoading)
    /\ UNCHANGED <<currentReportType, paramsShown, previewShown, dashShown,
                   page>>
    /\ UNCHANGED notFetch

\* response.json() resolves with data the render accepts: render, then
\* hide the indicator
JsonGood(o) ==
    /\ calls[o].pc = "json"
    /\ calls' = [calls EXCEPT ![o].pc = "done"]
    /\ paramsShown' = IF calls[o].kind = "params" /\ page.params
                      THEN calls[o].arg ELSE paramsShown
    /\ previewShown' = IF calls[o].kind = "preview" THEN o ELSE previewShown
    /\ dashShown' = IF calls[o].kind = "dashboard" /\ page.dashboard
                    THEN o ELSE dashShown
    /\ overlays' = IndicatorOff(calls[o].kind, overlays, dashLoading)[1]
    /\ dashLoading' = IndicatorOff(calls[o].kind, overlays, dashLoading)[2]
    /\ UNCHANGED <<alerts, currentReportType, page>>
    /\ UNCHANGED notFetch

\* response.json() resolves with data the render throws on (parameters that
\* are no array, a null preview, a dashboard without kpi).  renderParameters
\* returns before it reads the data when the page has no #dynamic-parameters,
\* and has emptied the container when forEach throws.
JsonBad(o) ==
    /\ calls[o].pc = "json"
    /\ IF calls[o].kind = "params" /\ ~page.params
       THEN /\ calls' = [calls EXCEPT ![o].pc = "done"]
            /\ overlays' = hideLoading(overlays)
            /\ UNCHANGED <<dashLoading, alerts, paramsShown>>
       ELSE /\ CatchBlock(o, calls, overlays, dashLoading)
            /\ paramsShown' = IF calls[o].kind = "params"
                              THEN "empty" ELSE paramsShown
    /\ UNCHANGED <<currentReportType, previewShown, dashShown, page>>
    /\ UNCHANGED notFetch

\* ------------------------------------------------------------------------
\* validateForm and the submit listener of initForms

\* the fields of the form, in document order; each field sits in a parent
\* element of its own
FieldOrder == <<"f1", "f2">>

FieldNames == {FieldOrder[i] : i \in 1..Len(FieldOrder)}

\* input types: "text" stands for every control that is neither an email nor
\* a password input (other inputs, select, textarea)
Kinds == {"text", "email", "password"}

\* field values, one character per element
Values ==
    { <<>>,
      <<" ">>,
      <<"a">>,
      <<" ", "a", " ">>,
      <<"a", "a", "a", "a", "a", "a">>,
      <<"a", "@", "a", ".", "a">>,
      <<"a", "@", "a", ".", "a", "a">>,
      <<"a", "@", "a">>,
      <<"a", "@", "a", ".">>,
      <<"@", "a", ".", "a">>,
      <<"a", "@", "@", "a", ".", "a">>,
      <<"a", " ", "@", "a", ".", "a">>,
      <<"a", "@", ".", "a">> }

IsSpace(c) == c = " "

\* String.prototype.trim
RECURSIVE TrimLeft(_)
TrimLeft(v) ==
    IF v # <<>> /\ IsSpace(Head(v)) THEN TrimLeft(Tail(v)) ELSE v

RECURSIVE TrimRight(_)
TrimRight(v) ==
    IF v # <<>> /\ IsSpace(v[Len(v)])
    THEN TrimRight(SubSeq(v, 1, Len(v) - 1))
    ELSE v

Trim(v) == TrimRight(TrimLeft(v))

\* the value of an email input is sanitized by the browser: it has no
\* leading or trailing whitespace
ValuesOf(kind) ==
    IF kind = "email" THEN {v \in Values : Trim(v) = v} ELSE Values

\* a run matching [^\s@]+
IsRun(v) ==
    /\ v # <<>>
    /\ \A i \in 1..Len(v) : ~IsSpace(v[i]) /\ v[i] # "@"

\* isValidEmail: /^[^\s@]+@[^\s@]+\.[^\s@]+$/.test(email)
isValidEmail(v) ==
    \E i, k \in 1..Len(v) :
        /\ i < k
        /\ v[i] = "@" /\ v[k] = "."
        /\ IsRun(SubSeq(v, 1, i - 1))
        /\ IsRun(SubSeq(v, i + 1, k - 1))
        /\ IsRun(SubSeq(v, k + 1, Len(v)))

\* (mutant) the empty test without trim()
RequiredFailsNoTrim(fld) == fld.required /\ fld.value = <<>>

\* if (!field.value.trim()), for the required fields
RequiredFails(fld) == fld.required /\ Trim(fld.value) = <<>>

\* if (field.value && !isValidEmail(field.value)), for input[type=email]
EmailFails(fld) ==
    fld.kind = "email" /\ fld.value # <<>> /\ ~isValidEmail(fld.value)

\* if (field.value && field.value.length < 6), for input[type=password]
PasswordFails(fld) ==
    /\ fld.kind = "password"
    /\ fld.value # <<>>
    /\ Len(fld.value) < MinPasswordLength

\* classList.add('is-invalid'); showFieldError(field, message)
MarkInvalid(fld) ==
    [fld EXCEPT !.isInvalid = TRUE, !.feedback = @ + 1]

\* the first forEach: a required field loses 'is-invalid' and the first
\* .invalid-feedback of its parent, and is marked again when it is empty
RequiredPass(fld) ==
    IF ~fld.required THEN fld
    ELSE LET cleared == [fld EXCEPT !.isInvalid = FALSE,
                                    !.feedback = IF @ > 0 THEN @ - 1 ELSE 0]
         IN  IF RequiredFails(fld) THEN MarkInvalid(cleared) ELSE cleared

EmailPass(fld) == IF EmailFails(fld) THEN MarkInvalid(fld) ELSE fld

PasswordPass(fld) == IF PasswordFails(fld) THEN MarkInvalid(fld) ELSE fld

\* validateForm's return value: isValid starts true and each forEach, over
\* the fields in document order, only ever sets it to false
validateForm(fs) ==
    LET afterRequired ==
            ~\E i \in 1..Len(FieldOrder) : RequiredFails(fs[FieldOrder[i]])
        afterEmail ==
            IF \E i \in 1..Len(FieldOrder) : EmailFails(fs[FieldOrder[i]])
            THEN FALSE ELSE afterRequired
        afterPassword ==
            IF \E i \in 1..Len(FieldOrder) : PasswordFails(fs[FieldOrder[i]])
            THEN FALSE ELSE afterEmail
    IN  afterPassword

\* the fields as validateForm leaves them
Validated(fs) ==
    [f \in FieldNames |-> PasswordPass(EmailPass(RequiredPass(fs[f])))]

NoSubmit == [valid |-> "none", defaultPrevented |-> FALSE,
             propagationStopped |-> FALSE]

QuietForm ==
    /\ fields = [f \in FieldNames |->
                    [kind |-> "text", required |-> FALSE, value |-> <<>>,
                     isInvalid |-> FALSE, feedback |-> 0]]
    /\ lastSubmit = NoSubmit

\* the form as the page delivers it: any types and required flags, empty
\* values, no error markers
InitForm ==
    /\ fields \in [FieldNames ->
                     [kind : Kinds, required : BOOLEAN, value : {<<>>},
                      isInvalid : {FALSE}, feedback : {0}]]
    /\ lastSubmit = NoSubmit

\* the user edits a field
SetValue(f, v) ==
    /\ v \in ValuesOf(fields[f].kind)
    /\ v # fields[f].value
    /\ fields' = [fields EXCEPT ![f].value = v]
    /\ lastSubmit' = NoSubmit
    /\ UNCHANGED notForm

\* the submit listener: if (!validateForm(this)) { e.preventDefault();
\* e.stopPropagation(); }
SubmitForm ==
    /\ \A f \in FieldNames : fields[f].feedback < MaxFeedback
    /\ LET ok == validateForm(fields)
       IN  /\ fields' = Validated(fields)
           /\ lastSubmit' = [valid |-> IF ok THEN "true" ELSE "false",
                             defaultPrevented |-> ~ok,
                             propagationStopped |-> ~ok]
    /\ UNCHANGED notForm

\* ------------------------------------------------------------------------
\* sortTable and filterTable

\* the columns of the table, each with a th[data-sort]; every row holds one
\* cell per column
Columns == {"name", "amount"}

\* the texts a cell of each column may hold, one character per element
CellTexts(c) ==
    IF c = "name"
    THEN { <<"a">>, <<"B">> }
    ELSE { <<"9">>, <<" ", "1", "0">>, <<"2">> }

\* the values typed into the search input
Terms == { <<>>, <<"A">>, <<"b">>, <<"1">>, <<"0", "9">> }

SortClasses == {"sort-asc", "sort-desc"}

DigitChars == <<"0", "1", "2", "3", "4", "5", "6", "7", "8", "9">>

IsDigit(c) == \E i \in 1..Len(DigitChars) : DigitChars[i] = c

DigitValue(c) == (CHOOSE i \in 1..Len(DigitChars) : DigitChars[i] = c) - 1

IsDigits(x) == x # <<>> /\ \A i \in 1..Len(x) : IsDigit(x[i])

RECURSIVE NumberOf(_)
NumberOf(x) ==
    IF x = <<>> THEN 0
    ELSE 10 * NumberOf(SubSeq(x, 1, Len(x) - 1)) + DigitValue(x[Len(x)])

\* String.prototype.toLowerCase, character by character
LowerOf(c) == IF c = "A" THEN "a" ELSE IF c = "B" THEN "b" ELSE c

toLowerCase(x) == [i \in 1..Len(x) |-> LowerOf(x[i])]

\* the collation's first level: whitespace, then digits, then the letters
\* in alphabetical order whatever their case
PrimaryRank(c) ==
    IF IsSpace(c) \/ c = "\n" THEN 0
    ELSE IF IsDigit(c) THEN 1 + DigitValue(c)
    ELSE IF LowerOf(c) = "a" THEN 11 ELSE 12

\* the collation's last level: a lower-case letter before its capital
CaseRank(c) == IF LowerOf(c) = c THEN 0 ELSE 1

Sign(n) == IF n < 0 THEN -1 ELSE IF n > 0 THEN 1 ELSE 0

PrimaryRanks(x) == [i \in 1..Len(x) |-> PrimaryRank(x[i])]

CaseRanks(x) == [i \in 1..Len(x) |-> CaseRank(x[i])]

\* two sequences of ranks, compared from the left
RECURSIVE LexCompare(_, _)
LexCompare(x, y) ==
    IF x = <<>> /\ y = <<>> THEN 0
    ELSE IF x = <<>> THEN -1
    ELSE IF y = <<>> THEN 1
    ELSE IF Head(x) # Head(y)
    THEN Sign(Head(x) - Head(y))
    ELSE LexCompare(Tail(x), Tail(y))

\* x.localeCompare(y, undefined, { numeric: true }) on the texts of the
\* model (a run of digits, or letters): digits compare by their number
localeCompare(x, y) ==
    IF IsDigits(x) /\ IsDigits(y)
    THEN Sign(NumberOf(x) - NumberOf(y))
    ELSE IF LexCompare(PrimaryRanks(x), PrimaryRanks(y)) # 0
    THEN LexCompare(PrimaryRanks(x), PrimaryRanks(y))
    ELSE LexCompare(CaseRanks(x), CaseRanks(y))

\* (mutant) the comparator without the isAsc test: always ascending
AlwaysAscending(a, b, c, isAsc) ==
    localeCompare(Trim(cells[a][c]), Trim(cells[b][c]))

\* the comparator handed to rows.sort: the trimmed texts of the column's
\* cells, the arguments swapped when the header was 'sort-asc'
CompareRows(a, b, c, isAsc) ==
    IF ~isAsc
    THEN localeCompare(Trim(cells[a][c]), Trim(cells[b][c]))
    ELSE localeCompare(Trim(cells[b][c]), Trim(cells[a][c]))

\* Array.prototype.sort is stable: a row goes behind the rows that compare
\* equal to it
RECURSIVE InsertRow(_, _, _, _)
InsertRow(sorted, r, c, isAsc) ==
    IF sorted = <<>> THEN <<r>>
    ELSE IF CompareRows(Head(sorted), r, c, isAsc) > 0
    THEN <<r>> \o sorted
    ELSE <<Head(sorted)>> \o InsertRow(Tail(sorted), r, c, isAsc)

RECURSIVE SortRows(_, _, _)
SortRows(rs, c, isAsc) ==
    IF rs = <<>> THEN <<>>
    ELSE InsertRow(SortRows(SubSeq(rs, 1, Len(rs) - 1), c, isAsc),
                   rs[Len(rs)], c, isAsc)

\* row.textContent: the texts of the row's cells, a line break between them
RowText(r) == cells[r]["name"] \o <<"\n">> \o cells[r]["amount"]

\* String.prototype.includes
Includes(text, term) ==
    \E o \in 0..(Len(text) - Len(term)) :
        \A i \in 1..Len(term) : text[o + i] = term[i]

\* (mutant) the search term is used as typed
TermAsTyped(v) == v

\* const searchTerm = searchInput.value.toLowerCase()
SearchTerm(v) == toLowerCase(v)

\* text.includes(searchTerm) ? '' : 'none'
RowHidden(r, v) == ~Includes(toLowerCase(RowText(r)), SearchTerm(v))

NoClick == [column |-> "none", isAsc |-> FALSE]

QuietTable ==
    /\ rows = <<>>
    /\ cells = <<>>
    /\ hidden = {}
    /\ sortClass = [c \in Columns |-> {}]
    /\ lastClick = NoClick
    /\ lastTerm = <<"none">>

\* the table as the page delivers it: up to MaxRows rows of any texts, all
\* displayed, the headers with whatever sort classes the markup gives them
InitTable ==
    /\ \E n \in 0..MaxRows :
          /\ rows = [i \in 1..n |-> i]
          /\ cells \in [1..n -> [name : CellTexts("name"),
                                 amount : CellTexts("amount")]]
    /\ hidden = {}
    /\ sortClass \in [Columns -> SUBSET SortClasses]
    /\ lastClick = NoClick
    /\ lastTerm = <<"none">>

\* a click on the header of column c: sortTable(header)
SortTable(c) ==
    /\ LET isAsc == "sort-asc" \in sortClass[c]
       IN  /\ rows' = SortRows(rows, c, isAsc)
           /\ sortClass' = [d \in Columns |->
                               IF d # c THEN {}
                               ELSE IF isAsc THEN {"sort-desc"}
                               ELSE {"sort-asc"}]
           /\ lastClick' = [column |-> c, isAsc |-> isAsc]
    /\ UNCHANGED <<cells, hidden, lastTerm>>
    /\ UNCHANGED notTable

\* an input event on the search input holding v: filterTable(searchInput)
FilterTable(v) ==
    /\ hidden' = {rows[i] : i \in {k \in 1..Len(rows) : RowHidden(rows[k], v)}}
    /\ lastTerm' = v
    /\ UNCHANGED <<rows, cells, sortClass, lastClick>>
    /\ UNCHANGED notTable

\* ------------------------------------------------------------------------
\* Specifications

NextQueue ==
    \/ \E h \in Invocations, fmt \in Formats : HandleExport(h, fmt)
    \/ \E h \in Invocations : LoopCheck(h)
    \/ \E h \in Invocations : JobStart(h)
    \/ \E h \in Invocations : Step(h)
    \/ \E h \in Invocations : TimerFire(h)
    \/ \E h \in Invocations : Finish(h)
    \/ \E h \in Invocations : Shift(h)
    \/ \E h \in Invocations : Catch(h)

InitSpec == InitQueue /\ QuietFetch /\ QuietForm /\ QuietTable

Spec == InitSpec /\ [][NextQueue]_vars

\* Every continuation of an async function runs once its promise settles,
\* and every timer set by delay(500) fires; submits are up to the user.
SpecFair ==
    /\ Spec
    /\ \A h \in Invocations :
          /\ WF_vars(LoopCheck(h))
          /\ WF_vars(JobStart(h))
          /\ WF_vars(Step(h))
          /\ WF_vars(TimerFire(h))
          /\ WF_vars(Finish(h))
          /\ WF_vars(Shift(h))
          /\ WF_vars(Catch(h))

NextFetch ==
    \/ \E o \in Calls, t \in ReportTypes : HandleReportTypeChange(o, t)
    \/ \E o \in Calls : PreviewReport(o)
    \/ \E o \in Calls : LoadDashboardData(o)
    \/ \E o \in Calls : FetchRejects(o)
    \/ \E o \in Calls : FetchResolves(o)
    \/ \E o \in Calls : JsonInvalid(o)
    \/ \E o \in Calls : JsonGood(o)
    \/ \E o \in Calls : JsonBad(o)

InitSpecFetch == QuietQueue /\ InitFetch /\ QuietForm /\ QuietTable

SpecFetch == InitSpecFetch /\ [][NextFetch]_vars

NextForm ==
    \/ \E f \in FieldNames, v \in Values : SetValue(f, v)
    \/ SubmitForm

InitSpecForm == QuietQueue /\ QuietFetch /\ InitForm /\ QuietTable

SpecForm == InitSpecForm /\ [][NextForm]_vars

NextTable ==
    \/ \E c \in Columns : SortTable(c)
    \/ \E v \in Terms : FilterTable(v)

InitSpecTable == QuietQueue /\ QuietFetch /\ QuietForm /\ InitTable

SpecTable == InitSpecTable /\ [][NextTable]_vars

\* ------------------------------------------------------------------------
\* Properties of the export queue

Occurs(e) == \E i \in 1..Len(events) : events[i] = e

\* every occurrence of e2 comes after an occurrence of e1
Precedes(e1, e2) ==
    \A k \in 1..Len(events) :
        events[k] = e2 => \E i \in 1..(k - 1) : events[i] = e1

EnqueuedBefore(a, b) ==
    \E i, k \in 1..Len(events) :
        i < k /\ events[i] = <<"enqueue", a>> /\ events[k] = <<"enqueue", b>>

InQueue(j) == \E i \in 1..Len(exportQueue) : exportQueue[i] = j

\* C1: at most one job of exportQueue is 'processing' and at most one
\* processExportQueue loop is active, in every reachable state.
C1_SingleItem ==
    /\ Cardinality({i \in 1..Len(exportQueue) :
                        jobs[exportQueue[i]].status = "processing"}) <= 1
    /\ Cardinality(InLoop) <= 1

\* a submit arrived while a drain was waiting on its timer: its own
\* processExportQueue returned at once and its job waits behind
C1_Witness ==
    \E h, g \in Invocations :
        /\ pc[h] = "delay" /\ jobs[job[h]].status = "processing"
        /\ g # h /\ pc[g] = "done" /\ jobs[g].status = "queued" /\ InQueue(g)

\* C2: only the head of exportQueue is ever processed, and a job enqueued
\* before another has started and completed before the other starts.
C2_Fifo ==
    /\ \A j \in Invocations :
          jobs[j].status = "processing" =>
              exportQueue # <<>> /\ exportQueue[1] = j
    /\ \A a, b \in Invocations :
          EnqueuedBefore(a, b) =>
              \A k \in 1..Len(events) :
                  events[k] = <<"start", b>> =>
                      \E i, m \in 1..(k - 1) :
                          /\ i < m
                          /\ events[i] = <<"start", a>>
                          /\ events[m] = <<"complete", a>>

\* a drain processes a job that was submitted while an earlier one was being
\* processed, and a third waits
C2_Witness ==
    \E h, b, c \in Invocations :
        /\ job[h] = b /\ b # h /\ jobs[b].status = "processing"
        /\ jobs[h].status = "completed"
        /\ c # b /\ jobs[c].status = "queued"

NoProcessingThrows == \A h \in Invocations : pc[h] # "catch"

\* C3: if no job processing throws and timers fire, every job enqueued is
\* eventually 'completed' and removed, and the queue is eventually empty
\* with isProcessing false.
C3_DrainsCompletely ==
    ([]NoProcessingThrows) =>
        /\ \A j \in Invocations :
              [](InQueue(j) =>
                    <>(jobs[j].status = "completed" /\ ~InQueue(j)))
        /\ [](exportQueue # <<>> => <>(exportQueue = <<>> /\ ~isProcessing))

\* C4: once a job's status has become 'failed' it is never 'processing'
\* again.
C4_NoRetry ==
    \A j \in Invocations :
        /\ Occurs(<<"fail", j>>) => jobs[j].status # "processing"
        /\ \A i, k \in 1..Len(events) :
              (i < k /\ events[i] = <<"fail", j>>) =>
                  events[k] # <<"start", j>>

\* a job has failed and an export form was submitted after that
C4_Witness ==
    \E j, g \in Invocations :
        \E i, k \in 1..Len(events) :
            i < k /\ events[i] = <<"fail", j>> /\ events[k] = <<"enqueue", g>>

C5_State ==
    \A j \in Invocations :
        /\ jobs[j].progress \in {10 * n : n \in 0..10}
        /\ delays[j] <= 11
        /\ \A h \in Invocations :
              (job[h] = j /\ pc[h] = "delay") =>
                  delays[j] = (jobs[j].progress \div 10) + 1
        /\ Occurs(<<"complete", j>>) =>
              jobs[j].progress = 100 /\ delays[j] = 11
        /\ downloads[j] <= 1
        /\ Precedes(<<"complete", j>>, <<"download", j>>)
        /\ Precedes(<<"download", j>>, <<"remove", j>>)
        /\ Occurs(<<"download", j>>) <=> downloads[j] = 1
        /\ (Occurs(<<"download", j>>) /\ ~Occurs(<<"remove", j>>)) =>
              InQueue(j) /\ jobs[j].status = "completed"

C5_Action ==
    \A j \in Invocations :
        /\ jobs'[j].progress # jobs[j].progress =>
              jobs'[j].progress = jobs[j].progress + 10
        /\ delays'[j] # delays[j] =>
              /\ delays'[j] = delays[j] + 1
              /\ jobs'[j].progress = 10 * delays[j]

\* C5: a job's progress runs through 0, 10, ..., 100 in steps of 10 with one
\* delay after each of the 11 values; 'completed' comes only after 100, and
\* downloadExportResult is called once, after 'completed' and before the
\* job leaves the queue.
C5_FixedSteps == []C5_State /\ [][C5_Action]_vars

\* a job went through all its steps, was downloaded once and removed
C5_Witness ==
    \E j \in Invocations :
        /\ Occurs(<<"remove", j>>) /\ downloads[j] = 1 /\ delays[j] = 11
        /\ jobs[j].status = "completed" /\ jobs[j].progress = 100

\* C10: when processing the head job throws, the job becomes 'failed', the
\* drain stops, the failed job stays at the head, the jobs behind it stay
\* queued with progress 0 in their order, and only completed jobs are ever
\* removed.
C10_FailureLeavesQueue ==
    /\ \A h \in Invocations :
          pc[h] \in {"done", "rejected"} /\ Occurs(<<"fail", job[h]>>) =>
              jobs[job[h]].status = "failed"
    /\ \A j \in Invocations :
          jobs[j].status = "failed" =>
              /\ InLoop = {}
              /\ exportQueue # <<>> /\ exportQueue[1] = j
              /\ \A i \in 2..Len(exportQueue) :
                    /\ jobs[exportQueue[i]].status = "queued"
                    /\ jobs[exportQueue[i]].progress = 0
    /\ \A i, k \in 1..Len(exportQueue) :
          i < k => EnqueuedBefore(exportQueue[i], exportQueue[k])
    /\ \A j \in Invocations :
          /\ Occurs(<<"enqueue", j>>) /\ ~InQueue(j) =>
                jobs[j].status = "completed" /\ Occurs(<<"remove", j>>)
          /\ Precedes(<<"complete", j>>, <<"remove", j>>)

\* the head job failed in the middle of its steps with a job queued behind
C10_Witness ==
    \E j \in Invocations :
        /\ jobs[j].status = "failed" /\ jobs[j].progress > 0
        /\ Len(exportQueue) >= 2 /\ exportQueue[1] = j

\* ------------------------------------------------------------------------
\* Properties of the fetch-and-render operations

\* the step in which the fetch of call o rejects, its body is no valid JSON
\* or rendering it throws
FailsNow(o) ==
    /\ calls[o].pc \in {"fetch", "json"}
    /\ ~calls[o].failed /\ calls'[o].failed

\* call o ends with no exception escaping, one more error alert, and the
\* indicator of its kind switched off
HandledNow(o) ==
    /\ calls'[o].pc = "done"
    /\ alerts' = alerts + 1
    /\ IF calls[o].kind = "dashboard"
       THEN ~dashLoading'
       ELSE Len(overlays') = Len(overlays) - 1

\* C6: whenever the fetch rejects, the response is not valid JSON or its
\* rendering throws, the operation finishes without an exception escaping,
\* an error alert is shown and its loading indicator is switched off.
C6_CatchAndAlert == [][\A o \in Calls : FailsNow(o) => HandledNow(o)]_vars

\* the same on a page that holds a <main> element, where it holds
C6_OnPageWithMain ==
    [][page.main => \A o \in Calls : FailsNow(o) => HandledNow(o)]_vars

\* ------------------------------------------------------------------------
\* Properties of validateForm

\* local@domain.tld: no whitespace, a single "@" with something before it,
\* and after it a "." that has something on both sides
LocalAtDomainTld(v) ==
    /\ \A i \in 1..Len(v) : ~IsSpace(v[i])
    /\ Cardinality({i \in 1..Len(v) : v[i] = "@"}) = 1
    /\ \E i \in 2..Len(v) :
          /\ v[i] = "@"
          /\ \E k \in (i + 2)..(Len(v) - 1) : v[k] = "."

NonEmptyAfterTrimming(v) == \E i \in 1..Len(v) : ~IsSpace(v[i])

FormIsValid(fs) ==
    \A f \in FieldNames :
        /\ fs[f].required => NonEmptyAfterTrimming(fs[f].value)
        /\ (fs[f].kind = "email" /\ fs[f].value # <<>>) =>
              LocalAtDomainTld(fs[f].value)
        /\ (fs[f].kind = "password" /\ fs[f].value # <<>>) =>
              Len(fs[f].value) >= 6

\* C7: validateForm returns true exactly when every required field is
\* non-empty after trimming, every non-empty email matches local@domain.tld
\* and every non-empty password has at least 6 characters; the submit is
\* cancelled (preventDefault and stopPropagation) exactly when it returns
\* false.
C7_Validation ==
    lastSubmit.valid # "none" =>
        /\ lastSubmit.valid = "true" <=> FormIsValid(fields)
        /\ lastSubmit.defaultPrevented <=> lastSubmit.valid = "false"
        /\ lastSubmit.propagationStopped <=> lastSubmit.valid = "false"

\* a submit was cancelled for a malformed email alone, beside a required
\* password of six characters
C7_Witness ==
    /\ lastSubmit.valid = "false"
    /\ lastSubmit.defaultPrevented /\ lastSubmit.propagationStopped
    /\ \E f, g \in FieldNames :
          /\ fields[f].kind = "email" /\ fields[f].required
          /\ fields[f].value = <<"a", "@", "a", ".">>
          /\ fields[g].kind = "password" /\ fields[g].required
          /\ Len(fields[g].value) = 6


\* ------------------------------------------------------------------------
\* Properties of sortTable and filterTable

AllRows == DOMAIN cells

\* the text of a cell without its white space
Unspaced(x) == SelectSeq(x, LAMBDA ch : ~IsSpace(ch))

\* the place of a letter in the alphabet, whatever its case
LetterIndex(ch) == IF ch \in {"a", "A"} THEN 1 ELSE 2

LetterIndexes(x) == [i \in 1..Len(x) |-> LetterIndex(x[i])]

\* x is not behind y in ascending order: numbers by their value, words by
\* the alphabet
NotBehind(x, y) ==
    IF IsDigits(Unspaced(x)) /\ IsDigits(Unspaced(y))
    THEN NumberOf(Unspaced(x)) <= NumberOf(Unspaced(y))
    ELSE LexCompare(LetterIndexes(Unspaced(x)),
                    LetterIndexes(Unspaced(y))) <= 0

Ascending(rs, c) ==
    \A i, j \in 1..Len(rs) :
        i < j => NotBehind(cells[rs[i]][c], cells[rs[j]][c])

Descending(rs, c) ==
    \A i, j \in 1..Len(rs) :
        i < j => NotBehind(cells[rs[j]][c], cells[rs[i]][c])

IsPermutation(rs, S) ==
    /\ Len(rs) = Cardinality(S)
    /\ {rs[i] : i \in 1..Len(rs)} = S

C8_State ==
    /\ IsPermutation(rows, AllRows)
    /\ lastClick # NoClick =>
          /\ Cardinality({c \in Columns : sortClass[c] # {}}) <= 1
          /\ \A c \in Columns : sortClass[c] # SortClasses
          /\ IF lastClick.isAsc
             THEN /\ sortClass[lastClick.column] = {"sort-desc"}
                  /\ Descending(rows, lastClick.column)
             ELSE /\ sortClass[lastClick.column] = {"sort-asc"}
                  /\ Ascending(rows, lastClick.column)

C8_Action ==
    /\ IsPermutation(rows', {rows[i] : i \in 1..Len(rows)})
    /\ lastClick' # lastClick =>
          lastClick'.isAsc = ("sort-asc" \in sortClass[lastClick'.column])

\* C8: once a header has been clicked, at most one header carries a sort
\* class and none carries both; the click on a header that was not
\* 'sort-asc' leaves the body rows ascending by that column and the header
\* 'sort-asc', the click on a header that was 'sort-asc' leaves them
\* descending and the header 'sort-desc'; the body rows after a step are a
\* permutation of the rows before it.
C8_TableSort == []C8_State /\ [][C8_Action]_vars

\* a table of three rows with three different amounts, out of its original
\* order after a click on the amount header that was 'sort-asc'
C8_Witness ==
    /\ Len(rows) = MaxRows
    /\ lastClick = [column |-> "amount", isAsc |-> TRUE]
    /\ Cardinality({cells[r]["amount"] : r \in AllRows}) = MaxRows
    /\ rows # [i \in 1..MaxRows |-> i]

SameLetter(ch, d) == ch = d \/ {ch, d} \in {{"a", "A"}, {"b", "B"}}

\* text contains term when the case of the letters is ignored
ContainsIgnoringCase(text, term) ==
    \E o \in 0..(Len(text) - Len(term)) :
        \A i \in 1..Len(term) : SameLetter(text[o + i], term[i])

C9_State ==
    lastTerm # <<"none">> =>
        \A r \in AllRows :
            (r \notin hidden) <=> ContainsIgnoringCase(RowText(r), lastTerm)

C9_Action ==
    /\ (hidden' # hidden \/ lastTerm' # lastTerm) =>
          /\ rows' = rows
          /\ cells' = cells
          /\ sortClass' = sortClass
    /\ (rows' # rows \/ sortClass' # sortClass \/ lastClick' # lastClick) =>
          hidden' = hidden

\* C9: after filterTable has run, a body row is displayed exactly if its
\* text contains the search term, the case of letters ignored (every row
\* when the term is empty); a step that filters leaves the order and the
\* number of the rows alone, and a step that sorts leaves every row's
\* visibility alone.
C9_TableFilter == []C9_State /\ [][C9_Action]_vars

\* three rows, sorted by a click, filtered by a capital letter that some
\* rows hold in lower case: some rows displayed, some not
C9_Witness ==
    /\ Len(rows) = MaxRows
    /\ lastTerm = <<"A">>
    /\ lastClick # NoClick
    /\ hidden # {}
    /\ hidden # AllRows


\* ------------------------------------------------------------------------
\* Properties of the isProcessing flag and of the rendered queue

NoDrainRunning == InLoop = {}

\* C11: whenever no processExportQueue drain loop is running, isProcessing
\* is false, on the normal path and on every failure path.
C11_FlagReleased == NoDrainRunning => ~isProcessing

\* the item rendered for the job at place i shows that job as it is now
ShowsJob(item, id) ==
    /\ item.id = id
    /\ item.status = jobs[id].status
    /\ jobs[id].status = "processing" => item.bar = {jobs[id].progress}

NoRenderThrows == \A h \in Invocations : jobs[h].format # "undefined"

\* C15: whenever control is back at the event loop, the list last rendered
\* into #export-queue shows exactly the jobs of exportQueue, in order, with
\* their status and progress (an empty list once the queue is empty); stated
\* for the runs in which no render throws.
C15_RenderedMirrors ==
    (AtEventLoop /\ containerPresent /\ NoRenderThrows) =>
        /\ Len(rendered) = Len(exportQueue)
        /\ \A i \in 1..Len(exportQueue) : ShowsJob(rendered[i], exportQueue[i])

\* ------------------------------------------------------------------------
\* Properties of overlapping requests

Pending(o) == calls[o].pc \in {"fetch", "json"}

Made(kind) == {o \in Calls : calls[o].kind = kind}

\* every call made has resolved with data its render accepted
AllSucceeded ==
    \A o \in Calls :
        calls[o].kind # "none" => calls[o].pc = "done" /\ ~calls[o].failed

Latest(S) == CHOOSE o \in S : \A n \in S : n <= o

\* C12: once every fetch has settled (here: resolved with good data, on a
\* page with #dynamic-parameters and the dashboard), the parameters shown
\* are those fetched for currentReportType, and the dashboard shows the
\* data of the most recently issued loadDashboardData request.
C12_LatestRequestWins ==
    (AllSucceeded /\ page.params /\ page.dashboard) =>
        /\ Made("params") # {} => paramsShown = currentReportType
        /\ Made("dashboard") # {} => dashShown = Latest(Made("dashboard"))

DashboardInFlight == \E o \in Made("dashboard") : Pending(o)

\* C13: #analytics-dashboard carries the 'loading' class exactly while at
\* least one loadDashboardData request has been sent and has not completed;
\* stated for a page with the dashboard, <main> and the csrf token, where no
\* catch block throws.
C13_LoadingCoversInFlight ==
    (page.dashboard /\ page.main /\ page.csrf) =>
        (dashLoading <=> DashboardInFlight)

\* ------------------------------------------------------------------------
\* Properties of the validation markers

\* the rules of validateForm the field fails
FailedRules(fld) ==
    {r \in {"required", "email", "password"} :
        \/ r = "required" /\ fld.required
                          /\ ~NonEmptyAfterTrimming(fld.value)
        \/ r = "email" /\ fld.kind = "email" /\ fld.value # <<>>
                       /\ ~LocalAtDomainTld(fld.value)
        \/ r = "password" /\ fld.kind = "password" /\ fld.value # <<>>
                          /\ Len(fld.value) < MinPasswordLength}

\* C14: after a validateForm call, a field carries 'is-invalid' and an
\* 'invalid-feedback' message exactly if that call found it invalid (so
\* none does when the call returned true), and it holds no more than one
\* message per failed rule.
C14_MarkersAgree ==
    lastSubmit # NoSubmit =>
        \A f \in FieldNames :
            /\ fields[f].isInvalid <=> FailedRules(fields[f]) # {}
            /\ fields[f].feedback > 0 <=> FailedRules(fields[f]) # {}
            /\ fields[f].feedback <= Cardinality(FailedRules(fields[f]))

====
